---------------------------- MODULE Spec2Model ----------------------------
(***************************************************************************)
(* A model of the LawSearch query orchestration (RAGService in             *)
(* app/services/rag_service.py) and of the partition index storage that    *)
(* the service shares with the ingestion script (src/ingest.py).           *)
(*                                                                         *)
(* Texts are sequences of lexical fragments (tokens); a token is a record  *)
(* [k |-> kind, t |-> text].  Python values are records                    *)
(* [ty |-> type, s |-> text, items |-> elements].                          *)
(***************************************************************************)
EXTENDS Integers, Sequences, FiniteSets, TLC

(***************************************************************************)
(* Bounds of the model.                                                    *)
(***************************************************************************)
\* How many extra re-ingestions (beyond the first) one behaviour may start.
MaxIngests == 1

(***************************************************************************)
(* The closed vocabulary: keys of settings.subcommittee_stores, in the     *)
(* order in which build_graph registers their nodes (three of the          *)
(* fourteen entries, kept in the dictionary's order).                      *)
(***************************************************************************)
subcommittee_stores ==
    << "OTHER MATTERS", "DEPARTMENT OF DEFENSE", "DEPARTMENT OF HOMELAND SECURITY" >>

Vocabulary == { subcommittee_stores[i] : i \in 1..Len(subcommittee_stores) }

\* A label the routing model may invent; it is no key of subcommittee_stores.
UnknownLabel == "DEPARTMENT OF EDUCATION"

\* Position of a label's node in registration order (dictionary order).
RegistrationIndex(d) ==
    CHOOSE i \in 1..Len(subcommittee_stores) : subcommittee_stores[i] = d

\* Position of a label's node when nodes are sorted by node id "query_<label>".
NameIndex(d) ==
    CASE d = "DEPARTMENT OF DEFENSE" -> 1
      [] d = "DEPARTMENT OF HOMELAND SECURITY" -> 2
      [] d = "OTHER MATTERS" -> 3

(***************************************************************************)
(* Tokens and Python values.                                               *)
(***************************************************************************)
Tok(k, t) == [k |-> k, t |-> t]

\* The three-backquote fence marker.
FENCE == Tok("fence", "fence")
TAG   == Tok("name", "python")
SP    == Tok("sp", " ")
NL    == Tok("nl", "\n")
LB    == Tok("lb", "[")
RB    == Tok("rb", "]")
COMMA == Tok("comma", ",")
Str(l) == Tok("str", l)

IsSpace(tok) == tok.k \in {"sp", "nl"}
IsAtomTok(tok) == tok.k \in {"str", "int", "dict", "baddict"}

PyAtom(ty, s) == [ty |-> ty, s |-> s, items |-> << >>]
PyList(items) == [ty |-> "list", s |-> "", items |-> items]
PyStr(l) == PyAtom("str", l)
EmptyList == PyList(<< >>)

\* Python truthiness of a value ("not selected").
Truthy(v) ==
    CASE v.ty = "list" -> Len(v.items) > 0
      [] v.ty = "str"  -> v.s # ""
      [] v.ty = "int"  -> v.s # "0"
      [] v.ty = "dict" -> v.s # "{}"
      [] OTHER -> FALSE

IsListOfStr(v) ==
    /\ v.ty = "list"
    /\ \A i \in 1..Len(v.items) : v.items[i].ty = "str"

\* The labels of a list of strings, in order.
Labels(v) == [i \in 1..Len(v.items) |-> v.items[i].s]

Range(s) == { s[i] : i \in 1..Len(s) }

(***************************************************************************)
(* String operations used by route_subcommittees.                          *)
(***************************************************************************)
RECURSIVE LStrip(_)
LStrip(s) == IF s # << >> /\ IsSpace(Head(s)) THEN LStrip(Tail(s)) ELSE s

RECURSIVE RStrip(_)
RStrip(s) ==
    IF s # << >> /\ IsSpace(s[Len(s)]) THEN RStrip(SubSeq(s, 1, Len(s) - 1)) ELSE s

\* str.strip()
Strip(s) == RStrip(LStrip(s))

\* content.startswith(fence marker)
StartsWithFence(s) == s # << >> /\ Head(s) = FENCE

\* content.split("\n")
RECURSIVE Split(_)
Split(s) ==
    IF \A i \in 1..Len(s) : s[i] # NL
    THEN << s >>
    ELSE LET i == CHOOSE j \in 1..Len(s) :
                      s[j] = NL /\ \A m \in 1..(j - 1) : s[m] # NL
         IN  << SubSeq(s, 1, i - 1) >> \o Split(SubSeq(s, i + 1, Len(s)))

\* "\n".join(lines)
RECURSIVE Join(_)
Join(lines) ==
    IF lines = << >> THEN << >>
    ELSE IF Len(lines) = 1 THEN lines[1]
    ELSE lines[1] \o << NL >> \o Join(Tail(lines))

\* line.strip() is non-empty
NonBlank(line) == Strip(line) # << >>

(***************************************************************************)
(* ast.literal_eval, on the literals the routing model's replies hold: an  *)
(* atom (string, number, dict) or a flat list of atoms.  A line break      *)
(* outside brackets ends the expression; anything else is a SyntaxError or *)
(* ValueError.  A dict whose key is a list raises TypeError.               *)
(***************************************************************************)
\* Bracket depth before position i.
RECURSIVE Depth(_, _)
Depth(s, i) ==
    IF i <= 1 THEN 0
    ELSE Depth(s, i - 1)
         + (IF s[i - 1] = LB THEN 1 ELSE IF s[i - 1] = RB THEN -1 ELSE 0)

\* literal_eval strips leading spaces and tabs only.
RECURSIVE LStripBlanks(_)
LStripBlanks(s) ==
    IF s # << >> /\ Head(s).k = "sp" THEN LStripBlanks(Tail(s)) ELSE s

\* A second logical line: a line break at depth 0 with a token after it.
BreaksStatement(s) ==
    \E i \in 1..Len(s) :
        /\ s[i] = NL
        /\ Depth(s, i) = 0
        /\ \E j \in (i + 1)..Len(s) : ~IsSpace(s[j])

AtomValue(tok) ==
    CASE tok.k = "str" -> PyAtom("str", tok.t)
      [] tok.k = "int" -> PyAtom("int", tok.t)
      [] OTHER -> PyAtom("dict", tok.t)

\* The elements between the brackets: atom (, atom)* with an optional last comma.
WellFormedItems(inner) ==
    \A i \in 1..Len(inner) :
        IF i % 2 = 1 THEN IsAtomTok(inner[i]) ELSE inner[i] = COMMA

ItemValues(inner) ==
    LET atoms == SelectSeq(inner, IsAtomTok)
    IN  [i \in 1..Len(atoms) |-> AtomValue(atoms[i])]

\* Outcome of ast.literal_eval(content):
\*   [exc |-> "none", val |-> v], or exc "syntax" (SyntaxError or ValueError),
\*   or exc "type" (TypeError).
literal_eval(content) ==
    LET s   == LStripBlanks(content)
        sig == SelectSeq(s, LAMBDA tok : ~IsSpace(tok))
        n   == Len(sig)
        Err(e) == [exc |-> e, val |-> EmptyList]
        Ok(v)  == [exc |-> "none", val |-> v]
    IN  IF n = 0 \/ BreaksStatement(s) THEN Err("syntax")
        ELSE IF n = 1 /\ IsAtomTok(sig[1])
             THEN IF sig[1].k = "baddict" THEN Err("type")
                  ELSE Ok(AtomValue(sig[1]))
        ELSE IF /\ n >= 2
                /\ sig[1] = LB
                /\ sig[n] = RB
                /\ WellFormedItems(SubSeq(sig, 2, n - 1))
             THEN IF \E i \in 2..(n - 1) : sig[i].k = "baddict"
                  THEN Err("type")
                  ELSE Ok(PyList(ItemValues(SubSeq(sig, 2, n - 1))))
        ELSE Err("syntax")

(***************************************************************************)
(* route_subcommittees, from the model's reply to the value stored in      *)
(* selected_subcommittees.                                                 *)
(***************************************************************************)
\* "Handle markdown code blocks": drop the first and the last line and the
\* blank lines between them, when something is left.
StripFence(content) ==
    IF StartsWithFence(content)
    THEN LET lines      == Split(content)
             code_lines == SelectSeq(SubSeq(lines, 2, Len(lines) - 1), NonBlank)
         IN  IF code_lines # << >> THEN Join(code_lines) ELSE content
    ELSE content

\* "Parse LLM response": ValueError and SyntaxError give []; any other
\* exception propagates.
ParseReply(response) ==
    LET content == StripFence(Strip(response))
        r       == literal_eval(content)
    IN  IF r.exc = "syntax" THEN [exc |-> "none", val |-> EmptyList] ELSE r

(***************************************************************************)
(* Replies of the routing model: a body, bare or wrapped in a fenced code  *)
(* block.                                                                  *)
(***************************************************************************)
RECURSIVE CommaSeparated(_)
CommaSeparated(atoms) ==
    IF atoms = << >> THEN << >>
    ELSE IF Len(atoms) = 1 THEN << atoms[1] >>
    ELSE << atoms[1], COMMA, SP >> \o CommaSeparated(Tail(atoms))

ListLiteral(atoms) == << LB >> \o CommaSeparated(atoms) \o << RB >>

DEFENSE  == "DEPARTMENT OF DEFENSE"
HOMELAND == "DEPARTMENT OF HOMELAND SECURITY"
OTHER_MATTERS == "OTHER MATTERS"

Bodies ==
    { ListLiteral(<< Str(HOMELAND), Str(DEFENSE) >>),
      ListLiteral(<< Str(DEFENSE), Str(HOMELAND) >>),
      ListLiteral(<< Str(HOMELAND), Str(OTHER_MATTERS), Str(DEFENSE) >>),
      ListLiteral(<< Str(DEFENSE) >>),
      ListLiteral(<< >>),
      ListLiteral(<< Str(DEFENSE), Str(DEFENSE) >>),
      ListLiteral(<< Str(DEFENSE), Str(UnknownLabel) >>),
      ListLiteral(<< Str(DEFENSE), Tok("int", "42") >>),
      << LB, NL, SP, Str(DEFENSE), COMMA, NL, NL, SP, Str(HOMELAND), NL, RB >>,
      << Tok("name", "not"), SP, Tok("name", "a"), SP, Tok("name", "list") >>,
      << Str(DEFENSE) >>,
      << Tok("int", "42") >>,
      << Tok("dict", "{'a': 1}") >>,
      << Tok("baddict", "{[1]: 2}") >>,
      << >> }

Wrappers ==
    { "bare", "fenced", "fenced_tag", "fenced_padded",
      "inline", "open_inline", "close_inline" }

\* Fence markers on lines of their own.
OwnLineWrappers == { "fenced", "fenced_tag", "fenced_padded" }

Wrap(w, body) ==
    CASE w = "bare"          -> body
      [] w = "fenced"        -> << FENCE, NL >> \o body \o << NL, FENCE >>
      [] w = "fenced_tag"    -> << FENCE, TAG, NL >> \o body \o << NL, FENCE >>
      [] w = "fenced_padded" ->
             << NL, FENCE, TAG, NL, NL >> \o body \o << NL, SP, NL, FENCE, NL >>
      [] w = "inline"        -> << FENCE >> \o body \o << FENCE >>
      [] w = "open_inline"   -> << FENCE >> \o body \o << NL, FENCE >>
      [] w = "close_inline"  -> << FENCE, TAG, NL >> \o body \o << FENCE >>

(***************************************************************************)
(* Texts of answers.  result_text of a division is one fragment; the       *)
(* merged answer separates fragments by a blank line ("\n\n").             *)
(***************************************************************************)
AnswerText(d) == << Tok("answer", d) >>
NoAnswersFound == << Tok("text", "No answers found.") >>
EmptyText == << >>

\* "\n\n".join(texts)
RECURSIVE JoinBlankLine(_)
JoinBlankLine(texts) ==
    IF texts = << >> THEN << >>
    ELSE IF Len(texts) = 1 THEN texts[1]
    ELSE texts[1] \o << NL, NL >> \o JoinBlankLine(Tail(texts))

\* add_messages(left, right): every new message gets a fresh id and is appended.
add_messages(left, right) == left \o right

\* merge_node: the text written to final_answer.
merge_node(answers) ==
    IF answers = << >> THEN NoAnswersFound ELSE JoinBlankLine(answers)

\* A retriever with one depth for every tier.
FixedDepth(speed) == 9

\* get_retrieval_k_for_speed
get_retrieval_k_for_speed(speed) ==
    CASE speed = "quick"  -> 6
      [] speed = "normal" -> 9
      [] speed = "long"   -> 15
      [] OTHER -> 9

(***************************************************************************)
(* The compiled graph: router, one query node per key of                   *)
(* subcommittee_stores, merge.  The conditional edge maps the value        *)
(* route_to_nodes returns through the dictionary subcommittee_nodes.       *)
(***************************************************************************)
recursion_limit == 25

\* route_to_nodes(state)
route_to_nodes(selected) == IF ~Truthy(selected) THEN EmptyList ELSE selected

\* The framework wraps a result that is no list into a one-element list.
BranchResults(v) == IF v.ty = "list" THEN v.items ELSE << v >>

\* Looking a result up in subcommittee_nodes: an unhashable result raises
\* TypeError, a result that is no key raises KeyError.
BranchError(results) ==
    IF \E i \in 1..Len(results) : results[i].ty \in {"dict", "list"}
    THEN "TypeError"
    ELSE IF \E i \in 1..Len(results) :
                ~(results[i].ty = "str" /\ results[i].s \in Vocabulary)
    THEN "KeyError"
    ELSE "none"

\* A conditional edge that triggers every query node.
AllNodes(results) == Vocabulary

\* The query nodes the conditional edge triggers (a node is triggered once,
\* however often it is named).
Destinations(results) == { results[i].s : i \in 1..Len(results) }

\* The order in which the framework applies the writes of the tasks of one
\* step: the order of the tasks, which is either the registration order of
\* their nodes or the order of their node names, depending on the framework
\* release; never the order of completion.
TaskIndex(order, d) ==
    IF order = "registration" THEN RegistrationIndex(d) ELSE NameIndex(d)

RECURSIVE TaskOrder(_, _)
TaskOrder(order, ds) ==
    IF ds = {} THEN << >>
    ELSE LET d == CHOOSE x \in ds :
                      \A y \in ds : TaskIndex(order, x) <= TaskIndex(order, y)
         IN  << d >> \o TaskOrder(order, ds \ {d})

\* QueryResponse validation: selected_divisions is a List[str].
ValidResponse(selected) == IsListOfStr(selected)

(***************************************************************************)
(* Models and caches of the service instance.                              *)
(***************************************************************************)
\* create_llm_for_speed(speed, task): the ChatOpenAI configuration.
Llm(model, effort) == [model |-> model, reasoning_effort |-> effort]

create_llm_for_speed(speed, task) ==
    IF task = "routing" THEN Llm("gpt-4o-mini", "")
    ELSE IF speed = "quick" THEN Llm("gpt-4o-mini", "")
    ELSE IF speed = "normal" /\ task = "generation" THEN Llm("gpt-4o", "")
    ELSE IF speed = "normal" /\ task = "summarization" THEN Llm("o4-mini", "")
    ELSE IF speed = "long" /\ task = "generation" THEN Llm("gpt-5", "medium")
    ELSE IF speed = "long" /\ task = "summarization" THEN Llm("gpt-5", "high")
    ELSE Llm("gpt-4o", "")

\* cache_key = f"{thinking_speed}_{task}"
cache_key(speed, task) == speed \o "_" \o task

\* get_llm_for_task: the cache after the call.
get_llm_for_task(cache, speed, task) ==
    LET key == cache_key(speed, task)
    IN  IF key \in DOMAIN cache THEN cache
        ELSE [k \in DOMAIN cache \cup {key} |->
                 IF k = key THEN create_llm_for_speed(speed, task) ELSE cache[k]]

(***************************************************************************)
(* Index storage.  One directory per label under vectorstore_dir; a        *)
(* directory is absent, empty (created, nothing written), partial (being   *)
(* written) or built, and a built index carries the embedding scheme of    *)
(* its vectors.                                                            *)
(***************************************************************************)
\* src/config.py: the scheme src/ingest.py embeds with.
EMBEDDING_MODEL == "text-embedding-ada-002"
\* app/core/config.py: the scheme the service starts with.
SettingsEmbeddingModel == "text-embedding-3-large"
\* IngestRequest.validate_embedding_model: the schemes a request may name.
valid_models ==
    { "text-embedding-ada-002", "text-embedding-3-small", "text-embedding-3-large" }

Absent == [status |-> "absent", scheme |-> ""]
EmptyDir == [status |-> "empty", scheme |-> ""]
Partial(m) == [status |-> "partial", scheme |-> m]
Built(m) == [status |-> "built", scheme |-> m]

\* The index directory of a label (settings.subcommittee_stores[label]); the
\* model names a directory by its label.
StorePaths == Vocabulary

\* get_store(label): lru_cache keyed by label; Chroma(persist_directory=path,
\* embedding_function=self.embedder) opens the directory, creating it when
\* it does not exist.  The handle keeps the embedder it was created with.
get_store_cache(cache, emb, label) ==
    IF label \in DOMAIN cache THEN cache
    ELSE [l \in DOMAIN cache \cup {label} |->
             IF l = label THEN [path |-> label, embedder |-> emb] ELSE cache[l]]

get_store_disk(cache, dsk, label) ==
    IF label \notin DOMAIN cache /\ dsk[label].status = "absent"
    THEN [dsk EXCEPT ![label] = EmptyDir]
    ELSE dsk

(***************************************************************************)
(* State.                                                                  *)
(***************************************************************************)
VARIABLES
    \* the service instance (RAGService.__init__)
    llm_cache,      \* self.llm_cache: cache key -> model configuration
    embedder,       \* self.embedder: the scheme queries are embedded with
    store_cache,    \* the lru_cache of get_store: label -> store handle
    \* the index storage (vectorstore_dir)
    disk,           \* label -> state of its index directory
    \* one run of process_query
    pc,             \* idle, router, branch, query, merge, respond, returned, raised
    request,        \* the request object process_query was given
    state,          \* the RAGState of the run
    response,       \* route_subcommittees' local: the routing model's reply
    routed,         \* the value route_subcommittees returned
    tasks,          \* the query nodes of the current step
    completed,      \* the tasks that returned (label, retrieval depth), in order of completion
    failed,         \* the tasks that raised
    step,           \* graph steps taken by the run
    result,         \* the QueryResponse returned
    error,          \* the exception that ended the run
    task_order,     \* how the framework orders the tasks of a step
    task_pc,        \* where each query node's task is in node_fn
    \* ingestion
    ing,            \* the run of ingest_all in progress, and who started it
    rebuilt,        \* labels written completely since self.embedder last changed
    disk_before,    \* the storage when the last re-ingestion started
    last_read,      \* what the last get_store call returned
    parsed,         \* the last process_file call: the text read, the mapping returned
    health          \* the last health_check result

svars == << llm_cache, embedder, store_cache >>
qvars == << pc, request, state, response, routed, tasks, completed, failed,
            step, result, error, task_pc >>
ivars == << ing, rebuilt, disk_before, last_read, health, parsed >>
vars  == << llm_cache, embedder, store_cache, disk, pc, request, state,
            response, routed, tasks, completed, failed, step, result, error,
            task_order, task_pc, ing, rebuilt, disk_before, last_read, health,
            parsed >>

(***************************************************************************)
(* Requests.  process_query reads request.question and                     *)
(* request.thinking_speed.  QueryRequest (app/models/query.py) declares no *)
(* thinking_speed field, so an instance of it has no such attribute; a     *)
(* caller's object that carries one gives None or a speed.                 *)
(***************************************************************************)
\* A question is the sequence of its characters.
Ch(c) == Tok("char", c)

Question == << Ch("F"), Ch("E"), Ch("M"), Ch("A"), Ch("?") >>

\* Request bodies as posted: a plain question, one padded with spaces, one
\* of spaces only, one too short.
PaddedQuestion == << SP, Ch("a"), SP >>
BlankQuestion  == << SP, SP, SP >>
ShortQuestion  == << Ch("a"), Ch("b") >>
RawQuestions   == {Question, PaddedQuestion, BlankQuestion, ShortQuestion}

\* question: str = Field(..., min_length=3, max_length=1000)
min_length == 3
max_length == 1000

\* validate_question, a field validator that runs after the length
\* constraints of the field: returns v.strip().
validate_question(v) == Strip(v)

\* The request body passes validation: the length constraints on the posted
\* value, then validate_question's "if not v.strip(): raise ValueError".
QuestionValid(raw) ==
    /\ Len(raw) >= min_length
    /\ Len(raw) <= max_length
    /\ Strip(raw) # << >>

\* divisions_filter: Optional[List[str]], default None.
PyNone == PyAtom("None", "None")
HomelandOnly == PyList(<< PyStr(HOMELAND) >>)

RequestOf(raw, has, speed, filter) ==
    [ question |-> validate_question(raw),
      has_thinking_speed |-> has,
      thinking_speed |-> speed,
      divisions_filter |-> filter ]

Request(has, speed) == RequestOf(Question, has, speed, PyNone)

QueryRequest == Request(FALSE, "None")

\* The request objects process_query is called with: a QueryRequest, and
\* objects that carry a thinking_speed (None, a known tier, an unknown one),
\* one of them with a divisions_filter, one with the padded question.
Requests ==
    {QueryRequest}
        \cup { Request(TRUE, sp) : sp \in {"None", "quick", "normal", "long", "turbo"} }
        \cup { RequestOf(Question, TRUE, "normal", HomelandOnly) }
        \cup { RequestOf(raw, TRUE, "normal", PyNone) :
                   raw \in { q \in RawQuestions : QuestionValid(q) } }

NoRequest == [ question |-> << >>, has_thinking_speed |-> FALSE,
               thinking_speed |-> "None", divisions_filter |-> PyNone ]

\* initial_state of process_query
InitialState(question, speed) ==
    [ question |-> question,
      thinking_speed |-> speed,
      selected_subcommittees |-> EmptyList,
      subcommittee_answers |-> << >>,
      final_answer |-> EmptyText ]

NoState == InitialState(<< >>, "")
NoResponse == [wrap |-> "none", body |-> << >>, model |-> ""]
NoResult == [answer |-> EmptyText, selected_divisions |-> EmptyList, given |-> FALSE]

\* A task of a query node before node_fn has run: it has created no model.
TaskStart == [at |-> "start", created |-> FALSE]
NoTasks == [d \in Vocabulary |-> TaskStart]

IdleRun ==
    /\ pc = "idle"
    /\ task_pc = NoTasks
    /\ request = NoRequest
    /\ state = NoState
    /\ response = NoResponse
    /\ routed = EmptyList
    /\ tasks = {}
    /\ completed = << >>
    /\ failed = {}
    /\ step = 0
    /\ result = NoResult
    /\ error = "none"

IdleIngest == [pc |-> "idle", by |-> "none", model |-> "", clear |-> FALSE,
               files |-> << >>, queue |-> << >>, stage |-> "next", count |-> 0]
\* No document has been processed.
NoParse == [text |-> << >>, chunks |-> << >>]
NoRead == [label |-> "none", status |-> "", scheme |-> "", embedder |-> "",
           rebuilding |-> FALSE, stale |-> FALSE]

(***************************************************************************)
(* process_query and the steps of the compiled graph.                      *)
(***************************************************************************)
\* ingest_data runs the ingestion subprocess without yielding, so the
\* service handles nothing else until it returns.
ServiceFree == ~(ing.pc = "running" /\ ing.by = "service")

\* thinking_speed = request.thinking_speed or "normal"
EffectiveSpeed(req) ==
    IF req.thinking_speed \in {"None", ""} THEN "normal" ELSE req.thinking_speed

\* A process_query that builds a response from the state it has when the
\* run fails, where the code raises.
ReturnOnError(e) ==
    /\ pc' = "returned"
    /\ error' = e

Raise(e) ==
    /\ pc' = "raised"
    /\ error' = e

\* process_query up to app.invoke: reads request.thinking_speed (outside the
\* try block), builds the graph and the initial state.
StartQuery(req) ==
    /\ pc = "idle"
    /\ ServiceFree
    /\ request' = req
    /\ IF ~req.has_thinking_speed
       THEN /\ Raise("AttributeError")
            /\ UNCHANGED state
       ELSE /\ pc' = "router"
            /\ state' = InitialState(req.question, EffectiveSpeed(req))
            /\ UNCHANGED error
    /\ UNCHANGED << response, routed, tasks, completed, failed, step, result >>
    /\ UNCHANGED << svars, disk, task_order, task_pc, ivars >>

\* The router node, route_subcommittees: the routing model replies and the
\* reply is parsed.
Router(w, body) ==
    /\ pc = "router"
    /\ llm_cache' = get_llm_for_task(llm_cache, state.thinking_speed, "routing")
    /\ response' = [ wrap |-> w, body |-> body,
                     model |-> llm_cache'[cache_key(state.thinking_speed, "routing")].model ]
    /\ LET r == ParseReply(Wrap(w, body))
       IN  IF step >= recursion_limit
           THEN Raise("GraphRecursionError") /\ UNCHANGED routed
           ELSE IF r.exc # "none"
           THEN Raise("TypeError") /\ UNCHANGED routed
           ELSE /\ routed' = r.val
                /\ pc' = "branch"
                /\ UNCHANGED error
    /\ UNCHANGED << request, state, tasks, completed, failed, step, result >>
    /\ UNCHANGED << embedder, store_cache, disk, task_order, task_pc, ivars >>

\* The router node when the call of the routing model raises.
RouterFails ==
    /\ pc = "router"
    /\ llm_cache' = get_llm_for_task(llm_cache, state.thinking_speed, "routing")
    /\ Raise("APIError")
    /\ UNCHANGED << request, state, response, routed, tasks, completed, failed,
                    step, result >>
    /\ UNCHANGED << embedder, store_cache, disk, task_order, task_pc, ivars >>

\* The conditional edge after the router: route_to_nodes, then the lookup of
\* every result in subcommittee_nodes.  The router's write and the triggers
\* are applied when the step ends; with no trigger the run ends here.
Branch ==
    /\ pc = "branch"
    /\ response' = NoResponse
    /\ LET results == BranchResults(route_to_nodes(routed))
           err     == BranchError(results)
       IN  IF err # "none"
           THEN /\ Raise(err)
                /\ UNCHANGED << state, tasks, step >>
           ELSE /\ state' = [state EXCEPT !.selected_subcommittees = routed]
                /\ tasks' = Destinations(results)
                /\ step' = step + 1
                /\ pc' = IF Destinations(results) = {} THEN "respond" ELSE "query"
                /\ UNCHANGED error
    /\ UNCHANGED << request, routed, completed, failed, result >>
    /\ UNCHANGED << svars, disk, task_order, task_pc, ivars >>

\* The labels of the tasks that returned.
CompletedLabels == { completed[i].label : i \in 1..Len(completed) }

\* A step that does not wait for its tasks.
NonePending == {}

Pending == tasks \ (CompletedLabels \cup failed)

\* A query node, node_fn, that returns its result_text.
NodeComplete(d) ==
    /\ pc = "query"
    /\ d \in Pending
    /\ store_cache' = get_store_cache(store_cache, embedder, d)
    /\ disk' = get_store_disk(store_cache, disk, d)
    /\ llm_cache' = get_llm_for_task(llm_cache, state.thinking_speed, "generation")
    /\ completed' = Append(completed,
                           [ label |-> d,
                             k |-> get_retrieval_k_for_speed(state.thinking_speed) ])
    /\ UNCHANGED << pc, request, state, response, routed, tasks, failed, step,
                    result, error >>
    /\ UNCHANGED << embedder, task_order, task_pc, ivars >>

\* A query node that catches the failure of its retrieval or generation and
\* returns as if it had answered.
NodeSwallowsFailure(d, at) ==
    /\ pc = "query"
    /\ d \in Pending
    /\ store_cache' = get_store_cache(store_cache, embedder, d)
    /\ disk' = get_store_disk(store_cache, disk, d)
    /\ llm_cache' = get_llm_for_task(llm_cache, state.thinking_speed, "generation")
    /\ failed' = failed \cup {d}
    /\ UNCHANGED << pc, request, state, response, routed, tasks, completed, step,
                    result, error >>
    /\ UNCHANGED << embedder, task_order, task_pc, ivars >>

\* A query node whose retrieval or generation raises: node_fn catches
\* nothing, the framework cancels the step and the exception leaves invoke.
NodeFail(d, at) ==
    /\ pc = "query"
    /\ d \in Pending
    /\ IF at = "get_store"
       THEN UNCHANGED << store_cache, disk, llm_cache >>
       ELSE /\ store_cache' = get_store_cache(store_cache, embedder, d)
            /\ disk' = get_store_disk(store_cache, disk, d)
            /\ llm_cache' =
                   get_llm_for_task(llm_cache, state.thinking_speed, "generation")
    /\ failed' = failed \cup {d}
    /\ Raise("TaskError")
    /\ UNCHANGED << request, state, response, routed, tasks, completed, step,
                    result >>
    /\ UNCHANGED << embedder, task_order, task_pc, ivars >>

\* The texts the tasks of the step write to subcommittee_answers, in the
\* order the framework applies them.
StepWrites(order, ds) ==
    LET ord == TaskOrder(order, ds)
    IN  [i \in 1..Len(ord) |-> AnswerText(ord[i])]

\* The end of the step of the query nodes: every task has returned, their
\* writes go through the reducer add_messages, and merge is triggered.
EndStep ==
    /\ pc = "query"
    /\ Pending = {}
    /\ IF step >= recursion_limit
       THEN Raise("GraphRecursionError") /\ UNCHANGED << state, step >>
       ELSE /\ state' = [state EXCEPT !.subcommittee_answers =
                            add_messages(@, StepWrites(task_order, tasks))]
            /\ step' = step + 1
            /\ pc' = "merge"
            /\ UNCHANGED error
    /\ UNCHANGED << request, response, routed, tasks, completed, failed, result >>
    /\ UNCHANGED << svars, disk, task_order, task_pc, ivars >>

\* A graph with an edge from merge back to the router.
MergeLoopsBack ==
    /\ pc = "merge"
    /\ state' = [state EXCEPT !.final_answer = merge_node(state.subcommittee_answers)]
    /\ step' = step + 1
    /\ pc' = "router"
    /\ UNCHANGED << request, response, routed, tasks, completed, failed, result,
                    error >>
    /\ UNCHANGED << svars, disk, task_order, task_pc, ivars >>

\* The merge node, merge_node, the finish point of the graph.
Merge ==
    /\ pc = "merge"
    /\ state' = [state EXCEPT !.final_answer = merge_node(state.subcommittee_answers)]
    /\ step' = step + 1
    /\ pc' = "respond"
    /\ UNCHANGED << request, response, routed, tasks, completed, failed, result,
                    error >>
    /\ UNCHANGED << svars, disk, task_order, task_pc, ivars >>

\* process_query after app.invoke: the QueryResponse is built; a validation
\* error is caught and raised again as "RAG processing failed".
Respond ==
    /\ pc = "respond"
    /\ IF ValidResponse(state.selected_subcommittees)
       THEN /\ result' = [ answer |-> state.final_answer,
                           selected_divisions |-> state.selected_subcommittees,
                           given |-> TRUE ]
            /\ pc' = "returned"
            /\ UNCHANGED error
       ELSE /\ Raise("ValidationError")
            /\ UNCHANGED result
    /\ UNCHANGED << request, state, response, routed, tasks, completed, failed,
                    step >>
    /\ UNCHANGED << svars, disk, task_order, task_pc, ivars >>

\* The call is over; the service is ready for the next request.
Finish ==
    /\ pc \in {"returned", "raised"}
    /\ pc' = "idle"
    /\ request' = NoRequest
    /\ state' = NoState
    /\ response' = NoResponse
    /\ routed' = EmptyList
    /\ tasks' = {}
    /\ completed' = << >>
    /\ failed' = {}
    /\ step' = 0
    /\ result' = NoResult
    /\ error' = "none"
    /\ task_pc' = NoTasks
    /\ UNCHANGED << svars, disk, task_order, ivars >>

(***************************************************************************)
(* The service as first deployed: indices built by src/ingest.py, the      *)
(* service set to embed queries with the same scheme, caches empty.        *)
(***************************************************************************)
InitService ==
    /\ llm_cache = << >>
    /\ embedder = EMBEDDING_MODEL
    /\ store_cache = << >>
    /\ disk = [l \in StorePaths |-> Built(EMBEDDING_MODEL)]
    /\ task_order \in {"registration", "name"}

InitIngest ==
    /\ ing = IdleIngest
    /\ rebuilt = StorePaths
    /\ disk_before = disk
    /\ last_read = NoRead
    /\ health = "none"
    /\ parsed = NoParse

Init ==
    /\ InitService
    /\ IdleRun
    /\ InitIngest

Next ==
    \/ \E req \in Requests : StartQuery(req)
    \/ \E w \in Wrappers, body \in Bodies : Router(w, body)
    \/ RouterFails
    \/ Branch
    \/ \E d \in Vocabulary : NodeComplete(d)
    \/ \E d \in Vocabulary, at \in {"get_store", "chain"} : NodeFail(d, at)
    \/ EndStep
    \/ Merge
    \/ Respond
    \/ Finish

\* Query runs, one after another, on a storage nobody rebuilds.
Spec == Init /\ [][Next]_vars

(***************************************************************************)
(* Re-ingestion.  ingest_all (src/ingest.py) rebuilds the index of every   *)
(* label of the documents, one label after the other; it is run by         *)
(* ingest_data as a subprocess, or from the command line while the service *)
(* is up.                                                                  *)
(***************************************************************************)
\* A document of the data directory: its name and the division labels whose
\* headings division_pattern finds in it, in order; none for an
\* unstructured document.
Doc(name, headings) == [name |-> name, headings |-> headings]

\* A process_file that treats a document without division headings as an error.
process_file_strict(doc) ==
    IF doc.headings = << >>
    THEN [exc |-> "ValueError", chunks |-> << >>]
    ELSE [exc |-> "none", chunks |-> doc.headings]

\* process_file(path): the keys of the mapping it returns; "if not matches:
\* return {}".
process_file(doc) == [exc |-> "none", chunks |-> doc.headings]

\* ingest_all's loop over html_files: all_chunks.update(process_file(file)).
\* The keys are kept in the order of their first insertion.
RECURSIVE all_chunks(_)
all_chunks(files) ==
    IF files = << >> THEN [exc |-> "none", chunks |-> << >>]
    ELSE LET first == process_file(Head(files))
             rest  == all_chunks(Tail(files))
         IN  IF first.exc # "none" THEN [exc |-> first.exc, chunks |-> << >>]
             ELSE IF rest.exc # "none" THEN rest
             ELSE [ exc |-> "none",
                    chunks |-> first.chunks \o
                        SelectSeq(rest.chunks,
                                  LAMBDA l : l \notin Range(first.chunks)) ]

\* The documents of the deployed data directory, and batches with
\* unstructured documents among them.
Bill         == Doc("bill.html", subcommittee_stores)
BillOne      == Doc("one.html", << OTHER_MATTERS, DEFENSE >>)
BillTwo      == Doc("two.html", << HOMELAND >>)
Unstructured == Doc("notes.html", << >>)
DataDir      == << Bill >>
Batches ==
    { DataDir,
      << Unstructured, Bill >>,
      << BillOne, Unstructured, BillTwo >>,
      << BillTwo, Unstructured >>,
      << Unstructured >> }

\* The labels process_file finds in the documents, in the order of all_chunks.
DataLabels == all_chunks(DataDir).chunks

CanStartIngest ==
    /\ ing.pc # "running"
    /\ ing.count <= MaxIngests

StartedIngest(by, model, clear, files) ==
    LET found == all_chunks(files)
    IN  [ pc |-> IF found.exc = "none" THEN "running" ELSE "failed",
          by |-> by, model |-> model, clear |-> clear, files |-> files,
          queue |-> found.chunks, stage |-> "next", count |-> ing.count + 1 ]

\* "if clear_existing": shutil.rmtree(chroma_dir), os.makedirs(chroma_dir).
ClearExisting(dsk, clear) ==
    IF clear THEN [l \in DOMAIN dsk |-> Absent] ELSE dsk

\* The embedding scheme ingest_all builds with.  The --embedding-model
\* argument ingest_data passes is read by nothing in src/ingest.py.
IngestScheme(requested) == EMBEDDING_MODEL

\* ingest_data up to subprocess.run: clears the storage when asked, replaces
\* self.embedder, clears the store cache, starts the subprocess.
IngestData(model, clear) ==
    /\ pc = "idle"
    /\ CanStartIngest
    /\ disk_before' = disk
    /\ disk' = ClearExisting(disk, clear)
    /\ embedder' = model
    /\ store_cache' = << >>
    /\ rebuilt' = IF model # embedder THEN {} ELSE rebuilt
    /\ ing' = StartedIngest("service", model, clear, DataDir)
    /\ UNCHANGED << llm_cache, qvars, task_order, last_read, parsed, health >>

\* python -m src.ingest, started from the command line.
CliIngest(files) ==
    /\ CanStartIngest
    /\ disk_before' = disk
    /\ ing' = StartedIngest("cli", "", FALSE, files)
    /\ UNCHANGED << svars, disk, qvars, task_order, rebuilt, last_read, parsed, health >>

Rebuilding(l) ==
    /\ ing.pc = "running"
    /\ ing.queue # << >>
    /\ Head(ing.queue) = l
    /\ ing.stage \in {"removed", "writing"}

\* ingest_all, one label: "if os.path.exists(db_path): shutil.rmtree(db_path)"
\* and os.makedirs(db_path).
IngestRemove ==
    /\ ing.pc = "running"
    /\ ing.stage = "next"
    /\ ing.queue # << >>
    /\ disk' = [disk EXCEPT ![Head(ing.queue)] = EmptyDir]
    /\ ing' = [ing EXCEPT !.stage = "removed"]
    /\ UNCHANGED << svars, qvars, task_order, rebuilt, disk_before, last_read, parsed,
                    health >>

\* Chroma.from_documents has embedded the chunks and is writing them.
IngestWrite ==
    /\ ing.pc = "running"
    /\ ing.stage = "removed"
    /\ disk' = [disk EXCEPT ![Head(ing.queue)] = Partial(IngestScheme(ing.model))]
    /\ ing' = [ing EXCEPT !.stage = "writing"]
    /\ UNCHANGED << svars, qvars, task_order, rebuilt, disk_before, last_read, parsed,
                    health >>

\* Chroma.from_documents has returned: "Created Chroma DB for ...".
IngestCreated ==
    /\ ing.pc = "running"
    /\ ing.stage = "writing"
    /\ disk' = [disk EXCEPT ![Head(ing.queue)] = Built(IngestScheme(ing.model))]
    /\ rebuilt' = rebuilt \cup {Head(ing.queue)}
    /\ ing' = [ing EXCEPT !.stage = "next", !.queue = Tail(@)]
    /\ UNCHANGED << svars, qvars, task_order, disk_before, last_read, parsed, health >>

\* ingest_all raises on a label (no documents, a failed embedding call, a
\* failed write) or the subprocess is killed at the timeout: the process
\* ends with the labels it has not reached untouched, and ingest_data raises.
IngestFail ==
    /\ ing.pc = "running"
    /\ ing.queue # << >>
    /\ ing' = [ing EXCEPT !.pc = "failed"]
    /\ UNCHANGED << svars, disk, qvars, task_order, rebuilt, disk_before,
                    last_read, parsed, health >>

\* ingest_all returns.  Started by ingest_data, the service sets
\* self.embedder to the requested model again and clears the store cache.
IngestDone ==
    /\ ing.pc = "running"
    /\ ing.stage = "next"
    /\ ing.queue = << >>
    /\ ing' = [ing EXCEPT !.pc = "done"]
    /\ IF ing.by = "service"
       THEN /\ embedder' = ing.model
            /\ store_cache' = << >>
       ELSE UNCHANGED << embedder, store_cache >>
    /\ UNCHANGED << llm_cache, disk, qvars, task_order, rebuilt, disk_before,
                    last_read, parsed, health >>

\* What a get_store(label) call hands to its caller.
ReadOf(cache, dsk, l) ==
    [ label |-> l,
      status |-> dsk[l].status,
      scheme |-> dsk[l].scheme,
      embedder |-> cache[l].embedder,
      rebuilding |-> Rebuilding(l),
      stale |-> l \notin rebuilt ]

\* get_store(label), called by a query node.
GetStore(l) ==
    /\ ServiceFree
    /\ store_cache' = get_store_cache(store_cache, embedder, l)
    /\ disk' = get_store_disk(store_cache, disk, l)
    /\ last_read' = ReadOf(store_cache', disk', l)
    /\ UNCHANGED << llm_cache, embedder, qvars, task_order, ing, rebuilt,
                    disk_before, parsed, health >>

\* health_check: lists the index directories and opens the first one.
available_stores == { l \in StorePaths : disk[l].status # "absent" }

HealthCheck ==
    /\ ServiceFree
    /\ IF available_stores = {}
       THEN /\ health' = "unhealthy"
            /\ UNCHANGED << store_cache, disk, last_read >>
       ELSE \E l \in available_stores :
                /\ store_cache' = get_store_cache(store_cache, embedder, l)
                /\ disk' = get_store_disk(store_cache, disk, l)
                /\ last_read' = ReadOf(store_cache', disk', l)
                /\ health' = "healthy"
    /\ UNCHANGED << llm_cache, embedder, qvars, task_order, ing, rebuilt,
                    disk_before, parsed >>

NextStore ==
    \/ \E m \in valid_models, clear \in BOOLEAN : IngestData(m, clear)
    \/ CliIngest(DataDir)
    \/ IngestRemove
    \/ IngestWrite
    \/ IngestCreated
    \/ IngestFail
    \/ IngestDone
    \/ \E l \in StorePaths : GetStore(l)
    \/ HealthCheck

\* Re-ingestions, and the service's reads of the storage between and during
\* them.
SpecStore == Init /\ [][NextStore]_vars

(***************************************************************************)
(* Claims.                                                                 *)
(***************************************************************************)
Ended == pc \in {"returned", "raised"}

\* The run went past the router and its conditional edge.
Routed == request.has_thinking_speed /\ step >= 1

\* The selected labels in the order of selected_subcommittees.
SelectedLabels == Labels(state.selected_subcommittees)

\* C1: a run whose routing selects no division (an empty list from the
\* router, also after a parse failure) returns a response with
\* selected_divisions = [] and the defined answer for nothing found; it
\* neither raises nor returns the initial empty final_answer.
C1_EmptyRoutingIsAnswered ==
    (Ended /\ Routed /\ state.selected_subcommittees = EmptyList)
        => /\ pc = "returned"
           /\ result.selected_divisions = EmptyList
           /\ result.answer # EmptyText
           /\ result.answer = NoAnswersFound

\* The one-line marker that stands for the answer of a division whose
\* summarizer failed.
FailureMarker(d) == Tok("failed", d)

\* C2: when two or more divisions are selected and the summarizer of one of
\* them raises, the run still returns, and its final answer holds the answer
\* of every other selected division and a failure marker for the failed one.
C2_TaskFailureIsIsolated ==
    (Ended /\ Cardinality(tasks) >= 2 /\ failed # {})
        => /\ pc = "returned"
           /\ \A d \in tasks \ failed : AnswerText(d)[1] \in Range(result.answer)
           /\ \A d \in failed : FailureMarker(d) \in Range(result.answer)

\* C3: the final answer of every run that returns (here: one whose selected
\* divisions are distinct) is the division answers in the order of
\* selected_divisions, joined by a blank line, whatever the order in which
\* the tasks completed or their nodes were registered.
C3_MergeFollowsSelectedOrder ==
    (pc = "returned" /\ tasks # {} /\ Len(SelectedLabels) = Cardinality(tasks))
        => result.answer =
               JoinBlankLine([i \in 1..Len(SelectedLabels) |->
                                 AnswerText(SelectedLabels[i])])

\* C4: what routing selects holds labels of the closed vocabulary only: a
\* label the model returned that is no member is dropped, and the query does
\* not fail on it.
C4_OnlyVocabularyLabelsSelected ==
    /\ IsListOfStr(routed) => Range(Labels(routed)) \subseteq Vocabulary
    /\ ~(pc = "raised" /\ error = "KeyError")

\* A body that is a list literal of string literals, and the list it denotes.
IsStrListBody(body) ==
    /\ Len(body) >= 2
    /\ body[1] = LB
    /\ body[Len(body)] = RB
    /\ \A i \in 2..(Len(body) - 1) : body[i].k \in {"str", "comma", "sp", "nl"}

DenotedList(body) ==
    LET strs == SelectSeq(body, LAMBDA tok : tok.k = "str")
    IN  PyList([i \in 1..Len(strs) |-> PyStr(strs[i].t)])

\* C5: route_subcommittees never raises and returns a list of strings: for
\* a reply that is a well-formed list of strings that list, in order, and
\* for any other reply (text that does not parse, a literal that is no list
\* of strings) the empty list.
C5_RouterReturnsListOfStrings ==
    /\ ~(pc = "raised" /\ error = "TypeError")
    /\ (pc = "branch" /\ response.wrap = "bare")
           => routed = IF IsStrListBody(response.body)
                       THEN DenotedList(response.body)
                       ELSE EmptyList

\* C6: a reply that parses to a list parses to the same list when it is
\* wrapped in a fenced code block, with or without a language tag, the
\* fence markers on lines of their own or on the line of the list.
C6_FenceStrippingIsTransparent ==
    (pc = "branch" /\ response.wrap # "bare")
        => LET bare == ParseReply(response.body)
           IN  (bare.exc = "none" /\ bare.val.ty = "list") => routed = bare.val

\* C7: after ingest_data has changed the embedding scheme, get_store hands
\* out no index that was built before the change: an index it returns has
\* been rebuilt since.
C7_NoStaleIndexAfterSchemeChange ==
    (last_read.label # "none" /\ last_read.status = "built") => ~last_read.stale

\* C8: when ingest_data(embedding_model = M) has returned successfully,
\* every index on disk was embedded with M, and M is the scheme the service
\* embeds queries with.
C8_IndicesBuiltWithRequestedScheme ==
    (ing.pc = "done" /\ ing.by = "service")
        => /\ embedder = ing.model
           /\ \A l \in StorePaths :
                  disk[l].status = "built" => disk[l].scheme = ing.model

\* C9: when a re-ingestion ends in failure on one label, every other label
\* that had a queryable index when it started still has one.
C9_FailedRebuildLeavesOtherLabels ==
    ing.pc = "failed"
        => \A l \in StorePaths \ {Head(ing.queue)} :
               disk_before[l].status = "built" => disk[l].status = "built"

\* C10: get_store returns no index of a label that is being rebuilt (its
\* directory removed, the new one not yet written completely).
C10_NoReadDuringRebuild ==
    ~last_read.rebuilding

(***************************************************************************)
(* The endpoint POST /query (app/api/endpoints/query.py): the outcome of   *)
(* process_query as the caller sees it.                                    *)
(***************************************************************************)
\* The class of the exception that leaves process_query: whatever is raised
\* inside its try block is caught and raised again as a plain Exception
\* ("RAG processing failed: ..."); the read of request.thinking_speed is
\* outside the try block.
ExceptionClass ==
    IF error = "AttributeError" THEN "AttributeError" ELSE "Exception"

\* The status of the endpoint's response: ValueError gives 400,
\* FileNotFoundError gives 503 (database_unavailable), any other exception
\* gives 500 (internal_error).
HttpStatus ==
    IF pc = "returned" THEN "200"
    ELSE IF pc # "raised" THEN "none"
    ELSE IF ExceptionClass = "ValueError" THEN "400"
    ELSE IF ExceptionClass = "FileNotFoundError" THEN "503"
    ELSE "500"

\* The service deployed before any ingestion: the index storage is missing.
InitFresh ==
    /\ llm_cache = << >>
    /\ embedder = SettingsEmbeddingModel
    /\ store_cache = << >>
    /\ disk = [l \in StorePaths |-> Absent]
    /\ task_order \in {"registration", "name"}
    /\ IdleRun
    /\ ing = IdleIngest
    /\ rebuilt = {}
    /\ disk_before = disk
    /\ last_read = NoRead
    /\ health = "none"
    /\ parsed = NoParse

\* Query runs on a storage that holds no index.
SpecFresh == InitFresh /\ [][Next]_vars

NoIndexBuilt == \A l \in StorePaths : disk[l].status # "built"

\* C11: with the index storage missing or holding no index, a query that
\* reaches the storage ends as service-unavailable: the endpoint answers 503
\* (database_unavailable), neither 500 nor a normal response.
C11_MissingStorageIsUnavailable ==
    (Ended /\ request.has_thinking_speed /\ tasks # {} /\ NoIndexBuilt)
        => HttpStatus = "503"

C13_DivisionsFilterIsApplied ==
    (pc = "returned" /\ request.divisions_filter # PyNone /\ tasks # {})
        => /\ result.selected_divisions = request.divisions_filter
           /\ tasks = Range(Labels(request.divisions_filter))

(***************************************************************************)
(* The legacy command-line pipeline (src/query.py).  It builds the same    *)
(* graph from module-level models; its router node is modelled here, the   *)
(* rest of its run is not.                                                 *)
(***************************************************************************)
LLM_ROUTING == "gpt-4o"

\* routing_llm = ChatOpenAI(model_name=LLM_ROUTING, temperature=0)
routing_llm == Llm(LLM_ROUTING, "")

\* route_subcommittees of src/query.py, in a run started by main().
LegacyRouter(w, body) ==
    /\ pc = "idle"
    /\ state' = InitialState(Question, "")
    /\ response' = [wrap |-> w, body |-> body, model |-> routing_llm.model]
    /\ LET r == ParseReply(Wrap(w, body))
       IN  IF r.exc # "none"
           THEN Raise("TypeError") /\ UNCHANGED routed
           ELSE /\ routed' = r.val
                /\ pc' = "legacy_routed"
                /\ UNCHANGED error
    /\ UNCHANGED << request, tasks, completed, failed, step, result >>
    /\ UNCHANGED << svars, disk, task_order, task_pc, ivars >>

\* The legacy process ends.
LegacyEnd ==
    /\ pc = "legacy_routed"
    /\ pc' = "idle"
    /\ state' = NoState
    /\ response' = NoResponse
    /\ routed' = EmptyList
    /\ UNCHANGED << request, tasks, completed, failed, step, result, error >>
    /\ UNCHANGED << svars, disk, task_order, task_pc, ivars >>

NextLegacy ==
    \/ \E w \in Wrappers, body \in Bodies : LegacyRouter(w, body)
    \/ LegacyEnd
    \/ Finish

\* Runs of the legacy pipeline's router.
SpecLegacy == Init /\ [][NextLegacy]_vars

\* C14: on every query path (the service, the legacy command line) the
\* routing step calls gpt-4o-mini, whatever the effort tier, unknown tier
\* values included.
C14_RoutingUsesCheapestModel ==
    (pc \in {"branch", "legacy_routed"}) => response.model = "gpt-4o-mini"

C16_QuestionLengthInState ==
    (pc \in {"router", "branch", "query", "merge", "respond", "returned"})
        => /\ state.question = request.question
           /\ Len(state.question) >= min_length
           /\ Len(state.question) <= max_length

NextIngest ==
    \/ \E files \in Batches : CliIngest(files)
    \/ IngestRemove
    \/ IngestWrite
    \/ IngestCreated
    \/ IngestFail
    \/ IngestDone

\* Ingestions of batches of documents into a storage that holds no index.
SpecIngest == InitFresh /\ [][NextIngest]_vars

\* The labels of the divisions of the documents of a batch.
BatchLabels(files) ==
    UNION { Range(files[i].headings) : i \in 1..Len(files) }

\* C17: a document with no recognizable division heading yields an empty
\* mapping and no error: the ingestion does not fail while it collects the
\* documents, its work list is the labels of the other documents, and when
\* it is done the index of every one of those labels is built.
C17_UnstructuredDocumentIsSkipped ==
    /\ \A files \in Batches : \A i \in 1..Len(files) :
           files[i].headings = << >> =>
               process_file(files[i]) = [exc |-> "none", chunks |-> << >>]
    /\ ing.pc = "failed" => ing.queue # << >>
    /\ ing.pc \in {"running", "failed", "done"} =>
           Range(ing.queue) \subseteq BatchLabels(ing.files)
    /\ ing.pc = "done" =>
           \A l \in BatchLabels(ing.files) : disk[l].status = "built"

\* An ingestion is done whose batch had an unstructured document before a
\* document with divisions.
C17_Witness ==
    /\ ing.pc = "done"
    /\ \E i, j \in 1..Len(ing.files) :
           /\ i < j
           /\ ing.files[i].headings = << >>
           /\ ing.files[j].headings # << >>
           /\ \A l \in Range(ing.files[j].headings) : disk[l].status = "built"

\* The labels named by selected_subcommittees (a value that is a string
\* names itself).
SelectedSet(v) ==
    IF v.ty = "list" THEN { v.items[i].s : i \in 1..Len(v.items) } ELSE {v.s}

\* C18: in every state of a run, the summarizer tasks started, the tasks
\* that returned and the entries of subcommittee_answers all belong to
\* labels that are in selected_subcommittees: no summarizer of an
\* unselected division runs or contributes an answer.
C18_AnswersOnlyFromSelected ==
    LET selected == SelectedSet(state.selected_subcommittees)
    IN  /\ tasks \subseteq selected
        /\ CompletedLabels \subseteq selected
        /\ failed \subseteq selected
        /\ \A i \in 1..Len(state.subcommittee_answers) :
               \E d \in selected : state.subcommittee_answers[i] = AnswerText(d)

\* Two of the three divisions were selected and have answered.
C18_Witness ==
    /\ pc = "merge"
    /\ Len(state.subcommittee_answers) = 2
    /\ SelectedSet(state.selected_subcommittees) # Vocabulary
    /\ tasks = SelectedSet(state.selected_subcommittees)

\* C19: final_answer is written at most once in a run, by the merge step
\* only, and only when every task of the selected divisions has returned:
\* merge never runs on a part of the answers.
C19_MergeOnceAfterAllTasks ==
    /\ [](state.final_answer # EmptyText =>
              /\ pc \in {"respond", "returned", "raised"}
              /\ tasks # {}
              /\ CompletedLabels = tasks
              /\ failed = {}
              /\ Len(state.subcommittee_answers) = Cardinality(tasks))
    /\ [][state'.final_answer # state.final_answer =>
              \/ /\ pc = "merge"
                 /\ pc' = "respond"
                 /\ state.final_answer = EmptyText
                 /\ CompletedLabels = tasks
                 /\ failed = {}
              \/ pc' = "idle"]_vars

\* Merge has written the final answer of a run of two or more tasks.
C19_Witness ==
    /\ pc = "respond"
    /\ state.final_answer # EmptyText
    /\ Cardinality(tasks) >= 2
    /\ CompletedLabels = tasks

\* The service after earlier queries whose routing selected nothing: the
\* routing model of their tier is in llm_cache, the store cache is empty.
WarmCaches ==
    { get_llm_for_task(<< >>, sp, "routing") : sp \in {"quick", "normal", "long"} }

InitWarm ==
    /\ llm_cache \in WarmCaches
    /\ embedder = EMBEDDING_MODEL
    /\ store_cache = << >>
    /\ disk = [l \in StorePaths |-> Built(EMBEDDING_MODEL)]
    /\ task_order \in {"registration", "name"}
    /\ IdleRun
    /\ InitIngest

NextWarm ==
    \/ \E m \in valid_models, clear \in BOOLEAN : IngestData(m, clear)
    \/ IngestRemove
    \/ IngestWrite
    \/ IngestCreated
    \/ IngestFail
    \/ IngestDone

\* Re-ingestions through ingest_data in a service that has answered queries.
SpecWarm == InitWarm /\ [][NextWarm]_vars

\* C20: when ingest_data has changed the embedding scheme, llm_cache holds
\* no entry created before the change (here every entry was: no query runs
\* after the start).
C20_LlmCacheInvalidatedOnSchemeChange ==
    embedder # EMBEDDING_MODEL => llm_cache = << >>

\* The start of SpecWarm is a state the service reaches by answering queries.
WarmIsReachable ==
    /\ pc = "idle"
    /\ llm_cache \in WarmCaches
    /\ store_cache = << >>
(***************************************************************************)
(* get_llm_for_task as a method of the service instance, called with any   *)
(* tier and task strings.                                                   *)
(***************************************************************************)
\* Tier and task strings of the calls: the ones the service passes, and
\* strings that hold the separator of the cache key.
TierStrings == { "quick", "quick_a", "normal", "long" }
TaskStrings == { "routing", "generation", "a_generation" }

\* One call get_llm_for_task(speed, task); it returns llm_cache[cache_key].
GetLlmForTask(speed, task) ==
    /\ pc = "idle"
    /\ llm_cache' = get_llm_for_task(llm_cache, speed, task)
    /\ UNCHANGED << embedder, store_cache, disk, qvars, task_order, ivars >>

NextLlm == \E speed \in TierStrings, task \in TaskStrings : GetLlmForTask(speed, task)

\* Sequences of get_llm_for_task calls on one service instance.
SpecLlm == Init /\ [][NextLlm]_vars

\* C21: after any sequence of get_llm_for_task calls, the entry a (tier,
\* task) pair is served from is the model created for that pair, and two
\* different pairs have different cache entries.
C21_CacheKeyedByPair ==
    /\ \A speed \in TierStrings, task \in TaskStrings :
           cache_key(speed, task) \in DOMAIN llm_cache =>
               llm_cache[cache_key(speed, task)] = create_llm_for_speed(speed, task)
    /\ \A s1, s2 \in TierStrings, t1, t2 \in TaskStrings :
           (cache_key(s1, t1) \in DOMAIN llm_cache /\ << s1, t1 >> # << s2, t2 >>)
               => cache_key(s1, t1) # cache_key(s2, t2)
\* C22: whenever the summarizer of a selected division has failed, the
\* caller gets an error (the run ends raised, no response is built, nothing
\* was merged) or an answer that marks every failed division; it never gets
\* an answer merged from the divisions that succeeded only.
C22_FailedDivisionNeverOmitted ==
    failed # {} =>
        \/ /\ pc = "raised"
           /\ error = "TaskError"
           /\ ~result.given
           /\ state.final_answer = EmptyText
           /\ HttpStatus = "500"
        \/ /\ pc = "returned"
           /\ \A d \in failed : FailureMarker(d) \in Range(result.answer)

\* One selected division has answered and another has failed.
C22_Witness ==
    /\ pc = "raised"
    /\ Cardinality(tasks) >= 2
    /\ completed # << >>
    /\ failed # {}
(***************************************************************************)
(* The closed vocabulary in full: the fourteen division names as each      *)
(* place of the code lists them.  A mapping of names to index directories  *)
(* is the sequence of its (name, directory) entries.                       *)
(***************************************************************************)
\* settings.subcommittee_stores (app/core/config.py)
settings_subcommittee_stores ==
    <<
       << "MILITARY CONSTRUCTION, VETERANS AFFAIRS, AND RELATED AGENCIES",
          "Consolidated_Appropriations_Act_2024_Public_Law_html_Division_A_MILITARY_CONSTRUCTION_VETERANS_AFFAIRS_AND_RELATED_AGENCIES" >>,
       << "AGRICULTURE, RURAL DEVELOPMENT, FOOD AND DRUG ADMINISTRATION, AND RELATED AGENCIES",
          "Consolidated_Appropriations_Act_2024_Public_Law_html_Division_B_AGRICULTURE_RURAL_DEVELOPMENT_FOOD_AND_DRUG_ADMINISTRATION_AND_RELATED_AGENCIES" >>,
       << "COMMERCE, JUSTICE, SCIENCE, AND RELATED AGENCIES",
          "Consolidated_Appropriations_Act_2024_Public_Law_html_Division_C_COMMERCE_JUSTICE_SCIENCE_AND_RELATED_AGENCIES" >>,
       << "ENERGY AND WATER DEVELOPMENT AND RELATED AGENCIES",
          "Consolidated_Appropriations_Act_2024_Public_Law_html_Division_D_ENERGY_AND_WATER_DEVELOPMENT_AND_RELATED_AGENCIES" >>,
       << "DEPARTMENT OF THE INTERIOR, ENVIRONMENT, AND RELATED AGENCIES",
          "Consolidated_Appropriations_Act_2024_Public_Law_html_Division_E_DEPARTMENT_OF_THE_INTERIOR_ENVIRONMENT_AND_RELATED_AGENCIES" >>,
       << "TRANSPORTATION, HOUSING AND URBAN DEVELOPMENT, AND RELATED AGENCIES",
          "Consolidated_Appropriations_Act_2024_Public_Law_html_Division_F_TRANSPORTATION_HOUSING_AND_URBAN_DEVELOPMENT_AND_RELATED_AGENCIES" >>,
       << "OTHER MATTERS",
          "Consolidated_Appropriations_Act_2024_Public_Law_html_Division_G_OTHER_MATTERS" >>,
       << "DEPARTMENT OF DEFENSE",
          "Further_Consolidated_Appropriations_Act_2024_Public_Law_html_Division_A_DEPARTMENT_OF_DEFENSE" >>,
       << "FINANCIAL SERVICES AND GENERAL GOVERNMENT",
          "Further_Consolidated_Appropriations_Act_2024_Public_Law_html_Division_B_FINANCIAL_SERVICES_AND_GENERAL_GOVERNMENT" >>,
       << "DEPARTMENT OF HOMELAND SECURITY",
          "Further_Consolidated_Appropriations_Act_2024_Public_Law_html_Division_C_DEPARTMENT_OF_HOMELAND_SECURITY" >>,
       << "DEPARTMENTS OF LABOR, HEALTH AND HUMAN SERVICES, AND EDUCATION, AND RELATED AGENCIES",
          "Further_Consolidated_Appropriations_Act_2024_Public_Law_html_Division_D_DEPARTMENTS_OF_LABOR_HEALTH_AND_HUMAN_SERVICES_AND_EDUCATION_AND_RELATED_AGENCIES" >>,
       << "LEGISLATIVE BRANCH",
          "Further_Consolidated_Appropriations_Act_2024_Public_Law_html_Division_E_LEGISLATIVE_BRANCH" >>,
       << "DEPARTMENT OF STATE, FOREIGN OPERATIONS, AND RELATED PROGRAMS",
          "Further_Consolidated_Appropriations_Act_2024_Public_Law_html_Division_F_DEPARTMENT_OF_STATE_FOREIGN_OPERATIONS_AND_RELATED_PROGRAMS" >>,
       << "OTHER MATTERS (FURTHER)",
          "Further_Consolidated_Appropriations_Act_2024_Public_Law_html_Division_G_OTHER_MATTERS" >>
    >>

\* subcommittee_stores = division_to_db (src/config.py)
division_to_db ==
    <<
       << "MILITARY CONSTRUCTION, VETERANS AFFAIRS, AND RELATED AGENCIES",
          "Consolidated_Appropriations_Act_2024_Public_Law_html_Division_A_MILITARY_CONSTRUCTION_VETERANS_AFFAIRS_AND_RELATED_AGENCIES" >>,
       << "AGRICULTURE, RURAL DEVELOPMENT, FOOD AND DRUG ADMINISTRATION, AND RELATED AGENCIES",
          "Consolidated_Appropriations_Act_2024_Public_Law_html_Division_B_AGRICULTURE_RURAL_DEVELOPMENT_FOOD_AND_DRUG_ADMINISTRATION_AND_RELATED_AGENCIES" >>,
       << "COMMERCE, JUSTICE, SCIENCE, AND RELATED AGENCIES",
          "Consolidated_Appropriations_Act_2024_Public_Law_html_Division_C_COMMERCE_JUSTICE_SCIENCE_AND_RELATED_AGENCIES" >>,
       << "ENERGY AND WATER DEVELOPMENT AND RELATED AGENCIES",
          "Consolidated_Appropriations_Act_2024_Public_Law_html_Division_D_ENERGY_AND_WATER_DEVELOPMENT_AND_RELATED_AGENCIES" >>,
       << "DEPARTMENT OF THE INTERIOR, ENVIRONMENT, AND RELATED AGENCIES",
          "Consolidated_Appropriations_Act_2024_Public_Law_html_Division_E_DEPARTMENT_OF_THE_INTERIOR_ENVIRONMENT_AND_RELATED_AGENCIES" >>,
       << "TRANSPORTATION, HOUSING AND URBAN DEVELOPMENT, AND RELATED AGENCIES",
          "Consolidated_Appropriations_Act_2024_Public_Law_html_Division_F_TRANSPORTATION_HOUSING_AND_URBAN_DEVELOPMENT_AND_RELATED_AGENCIES" >>,
       << "OTHER MATTERS",
          "Consolidated_Appropriations_Act_2024_Public_Law_html_Division_G_OTHER_MATTERS" >>,
       << "DEPARTMENT OF DEFENSE",
          "Further_Consolidated_Appropriations_Act_2024_Public_Law_html_Division_A_DEPARTMENT_OF_DEFENSE" >>,
       << "FINANCIAL SERVICES AND GENERAL GOVERNMENT",
          "Further_Consolidated_Appropriations_Act_2024_Public_Law_html_Division_B_FINANCIAL_SERVICES_AND_GENERAL_GOVERNMENT" >>,
       << "DEPARTMENT OF HOMELAND SECURITY",
          "Further_Consolidated_Appropriations_Act_2024_Public_Law_html_Division_C_DEPARTMENT_OF_HOMELAND_SECURITY" >>,
       << "DEPARTMENTS OF LABOR, HEALTH AND HUMAN SERVICES, AND EDUCATION, AND RELATED AGENCIES",
          "Further_Consolidated_Appropriations_Act_2024_Public_Law_html_Division_D_DEPARTMENTS_OF_LABOR_HEALTH_AND_HUMAN_SERVICES_AND_EDUCATION_AND_RELATED_AGENCIES" >>,
       << "LEGISLATIVE BRANCH",
          "Further_Consolidated_Appropriations_Act_2024_Public_Law_html_Division_E_LEGISLATIVE_BRANCH" >>,
       << "DEPARTMENT OF STATE, FOREIGN OPERATIONS, AND RELATED PROGRAMS",
          "Further_Consolidated_Appropriations_Act_2024_Public_Law_html_Division_F_DEPARTMENT_OF_STATE_FOREIGN_OPERATIONS_AND_RELATED_PROGRAMS" >>,
       << "OTHER MATTERS (FURTHER)",
          "Further_Consolidated_Appropriations_Act_2024_Public_Law_html_Division_G_OTHER_MATTERS" >>
    >>

\* The names listed in settings.routing_prompt (app/core/config.py).
settings_routing_prompt ==
    <<
       "MILITARY CONSTRUCTION, VETERANS AFFAIRS, AND RELATED AGENCIES",
       "AGRICULTURE, RURAL DEVELOPMENT, FOOD AND DRUG ADMINISTRATION, AND RELATED AGENCIES",
       "COMMERCE, JUSTICE, SCIENCE, AND RELATED AGENCIES",
       "ENERGY AND WATER DEVELOPMENT AND RELATED AGENCIES",
       "DEPARTMENT OF THE INTERIOR, ENVIRONMENT, AND RELATED AGENCIES",
       "TRANSPORTATION, HOUSING AND URBAN DEVELOPMENT, AND RELATED AGENCIES",
       "OTHER MATTERS",
       "DEPARTMENT OF DEFENSE",
       "FINANCIAL SERVICES AND GENERAL GOVERNMENT",
       "DEPARTMENT OF HOMELAND SECURITY",
       "DEPARTMENTS OF LABOR, HEALTH AND HUMAN SERVICES, AND EDUCATION, AND RELATED AGENCIES",
       "LEGISLATIVE BRANCH",
       "DEPARTMENT OF STATE, FOREIGN OPERATIONS, AND RELATED PROGRAMS",
       "OTHER MATTERS (FURTHER)"
    >>

\* The names listed in routing_prompt (src/config.py).
routing_prompt ==
    <<
       "MILITARY CONSTRUCTION, VETERANS AFFAIRS, AND RELATED AGENCIES",
       "AGRICULTURE, RURAL DEVELOPMENT, FOOD AND DRUG ADMINISTRATION, AND RELATED AGENCIES",
       "COMMERCE, JUSTICE, SCIENCE, AND RELATED AGENCIES",
       "ENERGY AND WATER DEVELOPMENT AND RELATED AGENCIES",
       "DEPARTMENT OF THE INTERIOR, ENVIRONMENT, AND RELATED AGENCIES",
       "TRANSPORTATION, HOUSING AND URBAN DEVELOPMENT, AND RELATED AGENCIES",
       "OTHER MATTERS",
       "DEPARTMENT OF DEFENSE",
       "FINANCIAL SERVICES AND GENERAL GOVERNMENT",
       "DEPARTMENT OF HOMELAND SECURITY",
       "DEPARTMENTS OF LABOR, HEALTH AND HUMAN SERVICES, AND EDUCATION, AND RELATED AGENCIES",
       "LEGISLATIVE BRANCH",
       "DEPARTMENT OF STATE, FOREIGN OPERATIONS, AND RELATED PROGRAMS",
       "OTHER MATTERS (FURTHER)"
    >>

\* A validator whose list lacks the last division.
valid_divisions_short ==
    {
       "MILITARY CONSTRUCTION, VETERANS AFFAIRS, AND RELATED AGENCIES",
       "AGRICULTURE, RURAL DEVELOPMENT, FOOD AND DRUG ADMINISTRATION, AND RELATED AGENCIES",
       "COMMERCE, JUSTICE, SCIENCE, AND RELATED AGENCIES",
       "ENERGY AND WATER DEVELOPMENT AND RELATED AGENCIES",
       "DEPARTMENT OF THE INTERIOR, ENVIRONMENT, AND RELATED AGENCIES",
       "TRANSPORTATION, HOUSING AND URBAN DEVELOPMENT, AND RELATED AGENCIES",
       "OTHER MATTERS",
       "DEPARTMENT OF DEFENSE",
       "FINANCIAL SERVICES AND GENERAL GOVERNMENT",
       "DEPARTMENT OF HOMELAND SECURITY",
       "DEPARTMENTS OF LABOR, HEALTH AND HUMAN SERVICES, AND EDUCATION, AND RELATED AGENCIES",
       "LEGISLATIVE BRANCH",
       "DEPARTMENT OF STATE, FOREIGN OPERATIONS, AND RELATED PROGRAMS"
    }

\* valid_divisions of QueryRequest.validate_divisions
valid_divisions ==
    {
       "MILITARY CONSTRUCTION, VETERANS AFFAIRS, AND RELATED AGENCIES",
       "AGRICULTURE, RURAL DEVELOPMENT, FOOD AND DRUG ADMINISTRATION, AND RELATED AGENCIES",
       "COMMERCE, JUSTICE, SCIENCE, AND RELATED AGENCIES",
       "ENERGY AND WATER DEVELOPMENT AND RELATED AGENCIES",
       "DEPARTMENT OF THE INTERIOR, ENVIRONMENT, AND RELATED AGENCIES",
       "TRANSPORTATION, HOUSING AND URBAN DEVELOPMENT, AND RELATED AGENCIES",
       "OTHER MATTERS",
       "DEPARTMENT OF DEFENSE",
       "FINANCIAL SERVICES AND GENERAL GOVERNMENT",
       "DEPARTMENT OF HOMELAND SECURITY",
       "DEPARTMENTS OF LABOR, HEALTH AND HUMAN SERVICES, AND EDUCATION, AND RELATED AGENCIES",
       "LEGISLATIVE BRANCH",
       "DEPARTMENT OF STATE, FOREIGN OPERATIONS, AND RELATED PROGRAMS",
       "OTHER MATTERS (FURTHER)"
    }

\* The names a mapping has entries for, and the directory of a name.
Keys(stores) == { stores[i][1] : i \in 1..Len(stores) }
PathOf(stores, l) == stores[CHOOSE i \in 1..Len(stores) : stores[i][1] = l][2]

\* A request that limits the query to one division, as posted.
FilterRequest(l) == RequestOf(Question, FALSE, "None", PyList(<< PyStr(l) >>))

\* The division names a caller or the routing model may give.
AnyLabels == Keys(settings_subcommittee_stores) \cup {UnknownLabel}

\* QueryRequest.validate_divisions on a posted divisions_filter of one name.
ValidateDivisions(l) ==
    /\ pc = "idle"
    /\ request' = FilterRequest(l)
    /\ IF l \in valid_divisions
       THEN pc' = "validated" /\ UNCHANGED error
       ELSE Raise("ValueError")
    /\ UNCHANGED << state, response, routed, tasks, completed, failed, step,
                    result >>
    /\ UNCHANGED << svars, disk, task_order, task_pc, ivars >>

\* The routing model names a division and the conditional edge looks its
\* node up in subcommittee_nodes, whose keys build_graph takes from
\* settings.subcommittee_stores.
RouteToNode(l) ==
    /\ pc = "validated"
    /\ routed' = PyList(<< PyStr(l) >>)
    /\ IF l \in Keys(settings_subcommittee_stores)
       THEN /\ state' = [InitialState(request.question, "normal")
                            EXCEPT !.selected_subcommittees = routed']
            /\ tasks' = {l}
            /\ step' = step + 1
            /\ pc' = "node"
            /\ UNCHANGED error
       ELSE /\ Raise("KeyError")
            /\ UNCHANGED << state, tasks, step >>
    /\ UNCHANGED << request, response, completed, failed, result >>
    /\ UNCHANGED << svars, disk, task_order, task_pc, ivars >>

\* The run with the full vocabulary is followed no further.
NodeEnd ==
    /\ pc = "node"
    /\ pc' = "idle"
    /\ request' = NoRequest
    /\ state' = NoState
    /\ routed' = EmptyList
    /\ tasks' = {}
    /\ step' = 0
    /\ UNCHANGED << response, completed, failed, result, error >>
    /\ UNCHANGED << svars, disk, task_order, task_pc, ivars >>

NextVocabulary ==
    \/ \E l \in AnyLabels : ValidateDivisions(l)
    \/ \E l \in AnyLabels : RouteToNode(l)
    \/ NodeEnd
    \/ Finish

\* Requests with a divisions_filter and routing over the full vocabulary.
SpecVocabulary == Init /\ [][NextVocabulary]_vars

\* C23: the division names listed in the routing prompt, the keys of
\* subcommittee_stores (service and legacy configuration alike) and the
\* valid set of validate_divisions are one and the same set, and different
\* names have different index directories; so a name the validator accepts
\* or the prompt lists always has a node, and a name without a node is
\* accepted nowhere.
C23_VocabularyIsTheSameEverywhere ==
    LET keys == Keys(settings_subcommittee_stores)
    IN  /\ Range(settings_routing_prompt) = keys
        /\ valid_divisions = keys
        /\ Keys(division_to_db) = keys
        /\ Range(routing_prompt) = keys
        /\ Vocabulary \subseteq keys
        /\ Cardinality(keys) = Len(settings_subcommittee_stores)
        /\ \A l \in keys :
               PathOf(division_to_db, l) = PathOf(settings_subcommittee_stores, l)
        /\ \A l1, l2 \in keys :
               l1 # l2 => PathOf(settings_subcommittee_stores, l1)
                              # PathOf(settings_subcommittee_stores, l2)
        /\ (pc = "raised" /\ error = "ValueError")
               => Labels(request.divisions_filter)[1] \notin keys
        /\ (pc = "raised" /\ error = "KeyError")
               => Labels(routed)[1] \notin Range(settings_routing_prompt)
        /\ pc = "node" => tasks \subseteq valid_divisions

\* A request filtered to the last division of the list was accepted and the
\* routing model's choice of that division found its node.
C23_Witness ==
    /\ pc = "node"
    /\ request.divisions_filter = PyList(<< PyStr("OTHER MATTERS (FURTHER)") >>)
    /\ tasks = {"OTHER MATTERS (FURTHER)"}
    /\ PathOf(settings_subcommittee_stores, "OTHER MATTERS (FURTHER)")
           # PathOf(settings_subcommittee_stores, "OTHER MATTERS")
\* C24: in every run that reaches merge, one summarizer task has run for
\* each entry of selected_subcommittees: the tasks and the answers handed to
\* merge are as many as the list has entries, also when the list names a
\* label more than once.
C24_OneTaskPerSelectedEntry ==
    (pc = "merge" /\ state.selected_subcommittees.ty = "list")
        => /\ Len(completed) = Len(SelectedLabels)
           /\ Len(state.subcommittee_answers) = Len(SelectedLabels)
(***************************************************************************)
(* The query nodes of one step as concurrent tasks.  app.invoke is the     *)
(* synchronous entry of the framework: the tasks of a step run in threads  *)
(* of a pool, so the statements of node_fn of different tasks interleave.  *)
(* get_llm_for_task tests the cache and assigns to it in two statements,   *)
(* with no lock.                                                           *)
(***************************************************************************)
\* self.llm_cache[cache_key] = create_llm_for_speed(thinking_speed, task)
StoreLlm(cache, speed, task) ==
    [k \in DOMAIN cache \cup {cache_key(speed, task)} |->
        IF k = cache_key(speed, task)
        THEN create_llm_for_speed(speed, task)
        ELSE cache[k]]

TaskAt(d, at) ==
    /\ pc = "query"
    /\ d \in Pending
    /\ task_pc[d].at = at

\* node_fn: retriever = self.get_store(path).as_retriever(...)
TaskGetStore(d) ==
    /\ TaskAt(d, "start")
    /\ store_cache' = get_store_cache(store_cache, embedder, d)
    /\ disk' = get_store_disk(store_cache, disk, d)
    /\ task_pc' = [task_pc EXCEPT ![d].at = "get_llm"]
    /\ UNCHANGED << llm_cache, embedder, pc, request, state, response, routed,
                    tasks, completed, failed, step, result, error >>
    /\ UNCHANGED << task_order, ivars >>

\* get_llm_for_task: "if cache_key not in self.llm_cache".
TaskLookupLlm(d) ==
    /\ TaskAt(d, "get_llm")
    /\ task_pc' = [task_pc EXCEPT ![d].at =
                      IF cache_key(state.thinking_speed, "generation")
                             \in DOMAIN llm_cache
                      THEN "chain" ELSE "create"]
    /\ UNCHANGED << svars, disk, pc, request, state, response, routed, tasks,
                    completed, failed, step, result, error >>
    /\ UNCHANGED << task_order, ivars >>

\* get_llm_for_task after a miss: a model is created and assigned to the key.
TaskCreateLlm(d) ==
    /\ TaskAt(d, "create")
    /\ llm_cache' = StoreLlm(llm_cache, state.thinking_speed, "generation")
    /\ task_pc' = [task_pc EXCEPT ![d] = [at |-> "chain", created |-> TRUE]]
    /\ UNCHANGED << embedder, store_cache, disk, pc, request, state, response,
                    routed, tasks, completed, failed, step, result, error >>
    /\ UNCHANGED << task_order, ivars >>

\* node_fn: the chain has run and the node returns its result_text.
TaskReturn(d) ==
    /\ TaskAt(d, "chain")
    /\ completed' = Append(completed,
                           [ label |-> d,
                             k |-> get_retrieval_k_for_speed(state.thinking_speed) ])
    /\ task_pc' = [task_pc EXCEPT ![d].at = "done"]
    /\ UNCHANGED << svars, disk, pc, request, state, response, routed, tasks,
                    failed, step, result, error >>
    /\ UNCHANGED << task_order, ivars >>

\* Requests of two tiers.
TaskRequests == { Request(TRUE, "quick"), Request(TRUE, "normal") }

NextTasks ==
    \/ \E req \in TaskRequests : StartQuery(req)
    \/ \E body \in Bodies : Router("bare", body)
    \/ Branch
    \/ \E d \in Vocabulary : TaskGetStore(d)
    \/ \E d \in Vocabulary : TaskLookupLlm(d)
    \/ \E d \in Vocabulary : TaskCreateLlm(d)
    \/ \E d \in Vocabulary : TaskReturn(d)
    \/ EndStep
    \/ Merge
    \/ Respond
    \/ Finish

\* Query runs whose tasks interleave statement by statement.
SpecTasks == Init /\ [][NextTasks]_vars

\* The tasks of the run that created a model for the run's generation key.
Creators == { d \in tasks : task_pc[d].created }

\* C25: the tasks of a run share no mutable state, so that under every
\* interleaving the caches are what a run of the tasks one after another
\* leaves: among the tasks of one run at most one model is created for the
\* (tier, task) key they all use.
C25_TasksShareNoState ==
    Cardinality(Creators) <= 1
\* C26: for every valid request, process_query reaches the routing step
\* with an initial state that holds the request's question and effort tier
\* ("normal" when the request gives none) and empty selected_subcommittees,
\* subcommittee_answers and final_answer; it does not fail before the graph
\* is invoked.
C26_InitialStateFromRequest ==
    /\ ~(pc = "raised" /\ step = 0 /\ error = "AttributeError")
    /\ pc = "router" =>
           /\ state.question = request.question
           /\ state.thinking_speed =
                  (IF request.has_thinking_speed /\ request.thinking_speed # "None"
                   THEN request.thinking_speed ELSE "normal")
           /\ state.selected_subcommittees = EmptyList
           /\ state.subcommittee_answers = << >>
           /\ state.final_answer = EmptyText
(***************************************************************************)
(* process_file (src/ingest.py) on the text of a document.  The text is a  *)
(* sequence of tokens: the words "DIVISION x" of a heading, the dashes,    *)
(* the reserved title, the marker word in some letter case, other words,   *)
(* spaces and line breaks.                                                 *)
(***************************************************************************)
\* How many lines a document of the model has at most.
MaxLines == 3

Div(x) == Tok("div", x)
DASH   == Tok("dash", "--")
OM     == Tok("om", "OTHER MATTERS")
APPR   == Tok("marker", "APPROPRIATIONS")
ApprMixed == Tok("marker", "Appropriations")
W(w)   == Tok("word", w)

\* m.group(1).upper()
Upper(x) == IF x = "a" THEN "A" ELSE x

\* Where a run of whitespace that starts at i ends.
RECURSIVE SkipSpace(_, _)
SkipSpace(text, i) ==
    IF i <= Len(text) /\ IsSpace(text[i]) THEN SkipSpace(text, i + 1) ELSE i

\* "^" under re.MULTILINE
LineStart(text, p) == p = 1 \/ text[p - 1] = NL

\* A pattern whose title is captured without the negative lookahead: it
\* runs to the end of the text.
TitleEndNoLookahead(text, k) == Len(text) + 1

\* "(?:(?!APPROPRIATIONS).)+" under re.IGNORECASE and re.DOTALL: the title
\* runs over line breaks up to the next occurrence of the marker word, or to
\* the end of the text.
RECURSIVE TitleEnd(_, _)
TitleEnd(text, k) ==
    IF k > Len(text) THEN Len(text) + 1
    ELSE IF text[k].k = "marker" THEN k
    ELSE TitleEnd(text, k + 1)

NoMatch == [ok |-> FALSE, start |-> 0, at |-> 0, end |-> 0, div |-> "", raw |-> << >>]

\* One attempt of division_pattern with the word DIVISION at position i, in
\* a scan that has reached position from:
\*   ^\s*  DIVISION\s+([A-Z])  \s*--\s*  (?:(OTHER MATTERS)|(title))
\* start is m.start(), end is m.end(), raw is m.group(2) or m.group(3).
MatchAt(text, from, i) ==
    LET starts == { p \in from..i :
                       /\ LineStart(text, p)
                       /\ \A q \in p..(i - 1) : IsSpace(text[q]) }
        j == SkipSpace(text, i + 1)
        k == SkipSpace(text, j + 1)
        Found(e, raw) ==
            [ ok |-> TRUE,
              start |-> CHOOSE p \in starts : \A q \in starts : p <= q,
              at |-> i, end |-> e, div |-> text[i].t, raw |-> raw ]
    IN  IF \/ text[i].k # "div"
           \/ starts = {}
           \/ j > Len(text)
           \/ text[j] # DASH
        THEN NoMatch
        ELSE IF k <= Len(text) /\ text[k] = OM
        THEN Found(k + 1, << OM >>)
        ELSE IF k <= Len(text) /\ text[k].k # "marker"
        THEN Found(TitleEnd(text, k), SubSeq(text, k, TitleEnd(text, k) - 1))
        \* the marker word or the end of the text follows at once: the
        \* title is the last whitespace character before it, if there is one
        ELSE IF k > j + 1
        THEN Found(k, << text[k - 1] >>)
        ELSE NoMatch

\* division_pattern.finditer(clean_text): the matches from left to right,
\* each scan starting where the match before ended.
RECURSIVE finditer(_, _)
finditer(text, from) ==
    LET found == { i \in from..Len(text) : MatchAt(text, from, i).ok }
    IN  IF found = {} THEN << >>
        ELSE LET i == CHOOSE x \in found : \A y \in found : x <= y
                 m == MatchAt(text, from, i)
             IN  << m >> \o finditer(text, m.end)

division_pattern(text) == finditer(text, 1)

\* ' '.join(raw.split())
Normalize(raw) == SelectSeq(raw, LAMBDA tok : ~IsSpace(tok))

\* division_names[div] after the loop over the matches: the title of the
\* last match that announces the letter.
division_names(matches, div) ==
    LET last == CHOOSE i \in 1..Len(matches) :
                    /\ Upper(matches[i].div) = div
                    /\ \A j \in (i + 1)..Len(matches) : Upper(matches[j].div) # div
    IN  Normalize(matches[last].raw)

\* headers = sorted((m.start(), m.group(1).upper()) for m in matches);
\* finditer yields the matches by increasing start, so the order is theirs.
headers(matches) ==
    [i \in 1..Len(matches) |->
        [start |-> matches[i].start, div |-> Upper(matches[i].div)]]

\* A slice that runs to the end of the text for every heading.
ChunkEndAtEof(hs, i, text) == Len(text)

\* end = headers[i+1][0] if i+1 < len(headers) else len(clean_text)
ChunkEnd(hs, i, text) ==
    IF i + 1 <= Len(hs) THEN hs[i + 1].start - 1 ELSE Len(text)

\* chunks[label] = chunk_text on a dict kept as the sequence of its entries:
\* a key that is present keeps its place and gets the new value.
DictPut(d, label, val) ==
    IF \E n \in 1..Len(d) : d[n].label = label
    THEN [n \in 1..Len(d) |->
             IF d[n].label = label THEN [label |-> label, text |-> val] ELSE d[n]]
    ELSE Append(d, [label |-> label, text |-> val])

\* The loop "for i, (start, div) in enumerate(headers)".
RECURSIVE ChunksFrom(_, _, _, _, _)
ChunksFrom(name, text, matches, i, chunks) ==
    IF i > Len(matches) THEN chunks
    ELSE LET hs    == headers(matches)
             label == [ file |-> name, div |-> hs[i].div,
                        title |-> division_names(matches, hs[i].div) ]
             chunk_text == Strip(SubSeq(text, hs[i].start, ChunkEnd(hs, i, text)))
         IN  ChunksFrom(name, text, matches, i + 1,
                        DictPut(chunks, label, chunk_text))

\* process_file(path) on the text of the file: the mapping it returns, {}
\* when no heading matches.
process_file_text(name, text) ==
    LET matches == division_pattern(text)
    IN  IF matches = << >> THEN << >>
        ELSE ChunksFrom(name, text, matches, 1, << >>)

\* Lines of documents: headings with the marker word after the title (in
\* capitals, in mixed case), a heading with the reserved title, a heading
\* whose line has no marker word, a heading that announces the letter A
\* again, text with and without the marker word, an empty line.
LineKinds ==
    { << Div("A"), SP, DASH, SP, W("DEPARTMENT OF DEFENSE"), SP, APPR, SP, W("ACT") >>,
      << Div("C"), SP, DASH, SP, W("HOMELAND SECURITY"), SP, ApprMixed >>,
      << Div("G"), SP, DASH, SP, OM >>,
      << Div("B"), SP, DASH, SP, W("EXTENSIONS") >>,
      << SP, Div("a"), DASH, W("MILITARY CONSTRUCTION"), SP, APPR >>,
      << SP, W("text") >>,
      << W("for"), SP, ApprMixed, SP >>,
      << >> }

Documents ==
    { Join(ls) : ls \in UNION { [1..n -> LineKinds] : n \in 1..MaxLines } }

\* ingest_all calls process_file(file).
ProcessFile(text) ==
    /\ parsed = NoParse
    /\ parsed' = [text |-> text, chunks |-> process_file_text("bill.html", text)]
    /\ UNCHANGED << svars, disk, qvars, task_order, ing, rebuilt, disk_before,
                    last_read, health >>

\* all_chunks.update(divisions): the mapping is taken over and the next file
\* is read.
UpdateAllChunks ==
    /\ parsed # NoParse
    /\ parsed' = NoParse
    /\ UNCHANGED << svars, disk, qvars, task_order, ing, rebuilt, disk_before,
                    last_read, health >>

NextFile ==
    \/ \E text \in Documents : ProcessFile(text)
    \/ UpdateAllChunks

\* process_file on one document after another.
SpecFile == Init /\ [][NextFile]_vars
\* Where the heading after the one at position s starts: the word DIVISION
\* of the next match, or the end of the text.
NextHeadingAt(text, matches, s) ==
    LET later == { matches[j].at : j \in 1..Len(matches) } \cap ((s + 1)..Len(text))
    IN  IF later = {} THEN Len(text) + 1
        ELSE CHOOSE x \in later : \A y \in later : x <= y

C28_TitleExcludesMarkerWord ==
    LET matches == division_pattern(parsed.text)
    IN  /\ \A i \in 1..Len(matches) : \A q \in 1..Len(matches[i].raw) :
               matches[i].raw[q].k # "marker"
        /\ \A n \in 1..Len(parsed.chunks) :
               \A q \in 1..Len(parsed.chunks[n].label.title) :
                   parsed.chunks[n].label.title[q].k # "marker"

\* A heading whose title is followed by the marker word in mixed case, on
\* the line of the heading: the title stops before it.
C28_Witness ==
    LET matches == division_pattern(parsed.text)
    IN  /\ Len(parsed.chunks) >= 1
        /\ \E i \in 1..Len(matches) :
               /\ matches[i].end <= Len(parsed.text)
               /\ parsed.text[matches[i].end] = ApprMixed
               /\ Normalize(matches[i].raw) = << W("HOMELAND SECURITY") >>

\* The division headings that occur in a document: the word DIVISION and a
\* letter at the start of a line, followed by the dashes.
DocumentHeadings(text) ==
    { i \in 1..Len(text) :
          /\ text[i].k = "div"
          /\ \E p \in 1..i : /\ LineStart(text, p)
                             /\ \A q \in p..(i - 1) : IsSpace(text[q])
          /\ SkipSpace(text, i + 1) <= Len(text)
          /\ text[SkipSpace(text, i + 1)] = DASH }

\* C30: process_file returns one entry per division heading that occurs in
\* the document, also when a letter is announced more than once.  (Checked
\* on the documents each of whose headings the pattern matched by itself.)
C30_OneEntryPerHeading ==
    LET text == parsed.text
    IN  Len(division_pattern(text)) = Cardinality(DocumentHeadings(text))
            => Len(parsed.chunks) = Cardinality(DocumentHeadings(text))
(***************************************************************************)
(* Termination of a run.  Every model call and every retrieval returns or  *)
(* raises, and the framework goes on to the next step: a step of a run     *)
(* that can be taken is taken.                                             *)
(***************************************************************************)
RunStep ==
    \/ \E body \in Bodies : Router("bare", body)
    \/ RouterFails
    \/ Branch
    \/ \E d \in Vocabulary : NodeComplete(d)
    \/ \E d \in Vocabulary, at \in {"get_store", "chain"} : NodeFail(d, at)
    \/ EndStep
    \/ Merge
    \/ Respond

\* A QueryRequest, and a request object that carries an effort tier.
RunRequests == { QueryRequest, Request(TRUE, "normal") }

NextRun ==
    \/ \E req \in RunRequests : StartQuery(req)
    \/ RunStep
    \/ Finish

\* Runs of the graph, one after another, each step of a run taken when it
\* can be.
SpecTerminates == Init /\ [][NextRun]_vars /\ WF_vars(RunStep)

\* The place of a run in the graph: the entry of process_query, the router,
\* its conditional edge, the query nodes, merge, the response, the end.
Rank(p) ==
    CASE p = "idle"    -> 0
      [] p = "router"  -> 1
      [] p = "branch"  -> 2
      [] p = "query"   -> 3
      [] p = "merge"   -> 4
      [] p = "respond" -> 5
      [] OTHER         -> 6

\* The steps of the graph: router, the selected query nodes, merge.
GraphSteps == << "router", "query", "merge" >>

\* C29: every run of the graph ends, returned or raised; it takes at most
\* three steps (router, the selected query nodes, merge), runs no node a
\* second time (a run only moves forward in the graph and no query node
\* completes twice), and so never reaches the bound of 25 steps.
C29_RunTerminatesInThreeSteps ==
    /\ [](/\ step <= Len(GraphSteps)
          /\ step < recursion_limit
          /\ error # "GraphRecursionError"
          /\ Len(completed) = Cardinality(CompletedLabels)
          /\ CompletedLabels \cap failed = {})
    /\ [][pc' # pc => (Rank(pc') > Rank(pc) \/ (Rank(pc) = 6 /\ pc' = "idle"))]_vars
    /\ (pc \in {"router", "branch", "query", "merge", "respond"})
           ~> (pc \in {"returned", "raised"})

\* A run that took the three steps and returned its response.
C29_Witness ==
    /\ pc = "returned"
    /\ step = Len(GraphSteps)
    /\ Len(completed) >= 2
    /\ result.given

=============================================================================
